---- MODULE Spec2Model ----
(***************************************************************************)
(* Model of the batch orchestrator executeBatchedQuerySmart and its        *)
(* strategy helpers executeParallel, executeSequential and                 *)
(* executeChunkedParallel.                                                 *)
(*                                                                         *)
(* One behaviour is one call.  JavaScript runs each synchronous segment of *)
(* an async function to completion, so every action below is one such      *)
(* segment: from the call (or from the resumption of an await) up to the   *)
(* next await or the return.  The lookup function queryFn is opaque: an    *)
(* invocation is appended to the log `calls` as a pending promise, and the *)
(* environment later fulfils it with any result list or rejects it with    *)
(* any error (QueryResolve, QueryReject).                                  *)
(***************************************************************************)
EXTENDS Integers, Sequences, FiniteSets

\* ------------------------------------------------------ program constants
\* SQL Server has a limit of 2100 parameters.
BATCH_SIZE == 2000
\* Default Knex mssql pool max size.
DEFAULT_MAX_POOL_SIZE == 10
\* BATCH_SIZE of the original parallel implementation.
ORIGINAL_BATCH_SIZE == 2000

\* ---------------------------------------------------------------- bounds
\* Longest ids array of a call.
MaxItems == 4
\* Largest batchSize option of a call.
MaxBatchSize == 2
\* Largest maxConcurrent option of a call.
MaxConcurrentOpt == 3
\* Longest result list one lookup invocation resolves with.
MaxResultLen == 2
\* How far below 1 a misused batchSize or maxConcurrent option goes (0, -1, ...).
MaxMisuse == 1

\* Most full default-size batches in the ids of a call through the
\* backward-compatible wrapper.
MaxFullBatches == 2

\* Longest ids array of a call whose lookup modifies the arrays it is passed.
MaxFrameItems == 3

\* Errors a lookup invocation may reject with.
Errors == {"e1", "e2"}

\* The result list of length n of the lookup invocation for chunk c.  The
\* orchestrator never inspects result items, so each item is tagged with the
\* chunk it was looked up for and its position in the list: any reordering,
\* loss or duplication of items shows in the output.
ResultList(c, n) == [j \in 1..n |-> <<c, j>>]

Strategies == {"auto", "parallel", "sequential"}
Entries == {"smart", "chunked"}

VARIABLES
    entry,              \* which function the caller invokes
    ids,                \* argument ids
    batchSize,          \* options.batchSize
    maxConcurrent,      \* options.maxConcurrent
    strategy,           \* options.strategy
    batches,            \* local `batches`
    executionStrategy,  \* local `executionStrategy`
    i,                  \* loop index of the running helper (0-based, as in the code)
    results,            \* local `results` of executeSequential / executeChunkedParallel
    calls,              \* the invocations of queryFn, in the order they were started
    awaited,            \* the promise the orchestrator is suspended on
    pc,                 \* where the call is
    output,             \* value the returned promise resolved with
    error,              \* reason the returned promise rejected with
    outOfOrder,         \* history: some invocation settled before an earlier chunk's
    firstRejected,      \* history: the invocation that rejected first in time (0: none)
    items               \* the caller's array, the object the argument ids refers to

vars == <<entry, ids, batchSize, maxConcurrent, strategy, batches,
          executionStrategy, i, results, calls, awaited, pc, output, error,
          outOfOrder, firstRejected, items>>

inputs == <<entry, ids, batchSize, maxConcurrent, strategy>>

\* ------------------------------------------------------- array helpers
Min(a, b) == IF a < b THEN a ELSE b

\* Mutant of Slice: the end index is taken as inclusive.
SliceInclusive(s, start, end) == SubSeq(s, start + 1, Min(end + 1, Len(s)))

\* Array.prototype.slice(start, end) for 0 <= start, 0 <= end (0-based, end
\* exclusive, clamped to the length).
Slice(s, start, end) == SubSeq(s, start + 1, Min(end, Len(s)))

\* Array.prototype.flat() of an array of arrays.
RECURSIVE Flat(_)
Flat(ss) == IF ss = <<>> THEN <<>> ELSE Head(ss) \o Flat(Tail(ss))

\* for (let i = 0; i < ids.length; i += batchSize) batches.push(ids.slice(i, i + batchSize))
RECURSIVE BatchLoop(_, _, _, _)
BatchLoop(xs, size, k, acc) ==
    IF k < Len(xs)
    THEN BatchLoop(xs, size, k + size, Append(acc, Slice(xs, k, k + size)))
    ELSE acc

\* Mutant of SliceLeaves: the batch is taken with splice(start, end - start),
\* which removes the items from the array it is called on.
SpliceLeaves(s, start, end) ==
    SubSeq(s, 1, Min(start, Len(s))) \o SubSeq(s, Min(end, Len(s)) + 1, Len(s))

\* What Array.prototype.slice(start, end) leaves of the array it is called on:
\* slice copies the items into a new array and does not modify the array.
SliceLeaves(s, start, end) == s

\* What the batching loop leaves of the array xs it slices, from index k on.
RECURSIVE BatchLoopLeaves(_, _, _)
BatchLoopLeaves(xs, size, k) ==
    IF k < Len(xs)
    THEN BatchLoopLeaves(SliceLeaves(xs, k, k + size), size, k + size)
    ELSE xs

\* Mutant of SplitIntoBatches: the loop runs while i + batchSize <= ids.length,
\* so a shorter final batch is never pushed.
SplitIntoBatchesDropTail(xs, size) ==
    SubSeq(BatchLoop(xs, size, 0, <<>>), 1, Len(xs) \div size)

SplitIntoBatches(xs, size) == BatchLoop(xs, size, 0, <<>>)

\* The batching loop exits: i reaches ids.length.  With batchSize <= 0 the
\* index i never grows, and i < ids.length holds for ever once it held for i = 0.
BatchLoopExits(xs, size) == Len(xs) = 0 \/ size >= 1

\* ------------------------------------------------------------ promises
NoPromise == [members |-> <<>>, state |-> "none", reason |-> "none"]

\* One invocation queryFn(batch) for chunk number `chunk` (1-based position of
\* the batch in `batches`; 1 for the direct call).  It returns a pending promise.
Invocation(batch, chunk) ==
    [batch |-> batch, chunk |-> chunk, state |-> "pending",
     value |-> <<>>, reason |-> "none"]

\* Mutant of MapQueryFn: the invocations are started from the last batch back
\* to the first.
MapQueryFnBackwards(log, bs, first) ==
    log \o [j \in 1..Len(bs) |->
              Invocation(bs[Len(bs) + 1 - j], first + Len(bs) + 1 - j)]

\* bs.map(queryFn), where bs are the batches number first+1 .. first+Len(bs):
\* the invocations are started synchronously, in array order.
RECURSIVE MapQueryFn(_, _, _)
MapQueryFn(log, bs, first) ==
    IF bs = <<>> THEN log
    ELSE MapQueryFn(Append(log, Invocation(Head(bs), first + 1)), Tail(bs), first + 1)

\* The promises (positions in the log) started by the last n invocations.
LastStarted(log, n) == [j \in 1..n |-> Len(log) - n + j]

\* Mutant of PromiseAll: the promises are not awaited, the running function
\* goes on at once with whatever values they have.
PromiseAllNotAwaited(members) ==
    [members |-> members, state |-> "fulfilled", reason |-> "none"]

\* Promise.all over the promises `members` (also models awaiting one promise).
\* Promise.all([]) is fulfilled at once.
PromiseAll(members) ==
    [members |-> members,
     state |-> IF members = <<>> THEN "fulfilled" ELSE "pending",
     reason |-> "none"]

Range(s) == {s[j] : j \in DOMAIN s}

\* Mutant of ValuesOf: the values in the reverse of the input array's order.
ValuesOfReversed(log, members) ==
    [j \in 1..Len(members) |-> log[members[Len(members) + 1 - j]].value]

\* The values Promise.all resolves with: in the order of its input array.
ValuesOf(log, members) == [j \in 1..Len(members) |-> log[members[j]].value]

\* -------------------------------------------------------------- Init
\* The ids of a call, as the benchmarks build them: 1, 2, ..., n.
IdArrays == {[j \in 1..n |-> j] : n \in 0..MaxItems}

Init ==
    /\ entry \in Entries
    /\ ids \in IdArrays
    /\ batchSize \in 1..MaxBatchSize
    /\ maxConcurrent \in 1..MaxConcurrentOpt
    /\ strategy \in Strategies
    /\ batches = <<>>
    /\ executionStrategy = "none"
    /\ i = 0
    /\ results = <<>>
    /\ calls = <<>>
    /\ awaited = NoPromise
    /\ pc = "start"
    /\ output = <<>>
    /\ error = "none"
    /\ outOfOrder = FALSE
    /\ firstRejected = 0
    /\ items = ids

\* The ids of a call through the wrapper: lengths at and just above the
\* multiples of the default batch size.
DefaultSizedIdArrays ==
    {[j \in 1..(q * BATCH_SIZE + d) |-> j] : q \in 0..MaxFullBatches, d \in 0..1}

\* A call executeBatchedQueryParallel(ids, queryFn) of the enhanced module: it
\* passes { strategy: 'parallel' }, the other options take their defaults.
InitCompat ==
    /\ entry = "smart"
    /\ ids \in DefaultSizedIdArrays
    /\ batchSize = BATCH_SIZE
    /\ maxConcurrent = DEFAULT_MAX_POOL_SIZE
    /\ strategy = "parallel"
    /\ batches = <<>>
    /\ executionStrategy = "none"
    /\ i = 0
    /\ results = <<>>
    /\ calls = <<>>
    /\ awaited = NoPromise
    /\ pc = "start"
    /\ output = <<>>
    /\ error = "none"
    /\ outOfOrder = FALSE
    /\ firstRejected = 0
    /\ items = ids

\* A call whose options misuse the configuration: batchSize or maxConcurrent
\* is not positive.
InitMisuse ==
    /\ entry = "smart"
    /\ ids \in IdArrays
    /\ batchSize \in (0 - MaxMisuse)..MaxBatchSize
    /\ maxConcurrent \in (0 - MaxMisuse)..MaxConcurrentOpt
    /\ (batchSize <= 0 \/ maxConcurrent <= 0)
    /\ strategy \in Strategies
    /\ batches = <<>>
    /\ executionStrategy = "none"
    /\ i = 0
    /\ results = <<>>
    /\ calls = <<>>
    /\ awaited = NoPromise
    /\ pc = "start"
    /\ output = <<>>
    /\ error = "none"
    /\ outOfOrder = FALSE
    /\ firstRejected = 0
    /\ items = ids

\* ------------------------------------------- segments of the async code
\* The running function reaches an await: the invocations in `log` have been
\* started and it suspends on Promise.all(members) (or on the one promise).
Suspend(log, members, where, k, res) ==
    /\ calls' = log
    /\ awaited' = PromiseAll(members)
    /\ pc' = where
    /\ i' = k
    /\ results' = res
    /\ UNCHANGED <<output, error>>

\* The running function returns v: the promise of the call resolves with v.
Return(v, res) ==
    /\ pc' = "resolved"
    /\ output' = v
    /\ results' = res
    /\ awaited' = NoPromise
    /\ UNCHANGED <<calls, i, error>>

\* Mutant of Throw: the rejection is swallowed and the call resolves with the
\* results collected so far.
ThrowPartial(e) ==
    /\ pc' = "resolved"
    /\ output' = results
    /\ awaited' = NoPromise
    /\ UNCHANGED <<calls, i, results, error>>

\* Mutant of Throw: the rejection aborts the invocations still in flight.
ThrowCancel(e) ==
    /\ pc' = "rejected"
    /\ error' = e
    /\ awaited' = NoPromise
    /\ calls' = [k \in DOMAIN calls |->
                   IF calls[k].state = "pending"
                   THEN [calls[k] EXCEPT !.state = "rejected", !.reason = e]
                   ELSE calls[k]]
    /\ UNCHANGED <<i, results, output>>

\* The awaited promise rejected: the await throws, nothing catches it, and
\* the promise of the call rejects with the same reason.
Throw(e) ==
    /\ pc' = "rejected"
    /\ error' = e
    /\ awaited' = NoPromise
    /\ UNCHANGED <<calls, i, results, output>>

\* The running function never leaves a synchronous loop: it neither returns
\* nor throws nor reaches an await, and the promise of the call never settles.
Diverge ==
    /\ pc' = "diverged"
    /\ UNCHANGED <<calls, awaited, i, results, output, error>>

\* return queryFn(ids): one invocation with the whole array.
DirectCall(xs) ==
    LET log == Append(calls, Invocation(xs, 1))
    IN  Suspend(log, LastStarted(log, 1), "direct", 0, <<>>)

\* Mutant of executeParallel: the batches are run one at a time.
executeParallelOneByOne(bs) ==
    IF 0 < Len(bs)
    THEN LET log == Append(calls, Invocation(bs[1], 1))
         IN  Suspend(log, LastStarted(log, 1), "sequential", 0, <<>>)
    ELSE Return(<<>>, <<>>)

\* executeParallel up to its await: Promise.all(batches.map(queryFn)).
executeParallel(bs) ==
    LET log == MapQueryFn(calls, bs, 0)
    IN  Suspend(log, LastStarted(log, Len(bs)), "parallel", 0, <<>>)

\* Mutant of executeSequential: the invocations of all remaining batches are
\* started without awaiting; only the last one is awaited.
executeSequentialNoAwait(bs, k, res) ==
    IF k < Len(bs)
    THEN LET log == MapQueryFn(calls, SubSeq(bs, k + 1, Len(bs)), k)
         IN  Suspend(log, LastStarted(log, 1), "sequential", Len(bs) - 1, res)
    ELSE Return(res, res)

\* executeSequential from the iteration of batch number k (0-based) on, with
\* `res` collected so far: await queryFn(batch), or return after the last one.
executeSequential(bs, k, res) ==
    IF k < Len(bs)
    THEN LET log == Append(calls, Invocation(bs[k + 1], k + 1))
         IN  Suspend(log, LastStarted(log, 1), "sequential", k, res)
    ELSE Return(res, res)

\* Mutant of executeChunkedParallel: the chunk is batches.slice(i), every
\* remaining batch at once.
executeChunkedParallelNoLimit(bs, k, res, limit) ==
    IF k < Len(bs)
    THEN LET chunk == Slice(bs, k, Len(bs))
             log == MapQueryFn(calls, chunk, k)
         IN  Suspend(log, LastStarted(log, Len(chunk)), "chunked", k, res)
    ELSE Return(res, res)

\* executeChunkedParallel from loop index k on:
\* chunk = batches.slice(i, i + maxConcurrent); await Promise.all(chunk.map(queryFn)).
executeChunkedParallel(bs, k, res, limit) ==
    IF k < Len(bs)
    THEN LET chunk == Slice(bs, k, k + limit)
             log == MapQueryFn(calls, chunk, k)
         IN  Suspend(log, LastStarted(log, Len(chunk)), "chunked", k, res)
    ELSE Return(res, res)

\* Mutant of ResolveStrategy: a forced strategy is overridden by the
\* chunked-parallel overflow when the batches exceed maxConcurrent.
ResolveStrategyOverflowChunked(strat, nBatches, limit) ==
    IF nBatches <= limit
    THEN IF strat = "auto" THEN "parallel" ELSE strat
    ELSE IF strat = "auto" THEN "sequential" ELSE "chunked-parallel"

\* Mutants of ResolveStrategy: auto never leaves parallel; auto overflows to
\* chunked-parallel; the comparison with maxConcurrent is strict.
ResolveStrategyAlwaysParallel(strat, nBatches, limit) ==
    IF strat = "auto" THEN "parallel" ELSE strat

ResolveStrategyChunked(strat, nBatches, limit) ==
    IF strat = "auto"
    THEN IF nBatches <= limit THEN "parallel" ELSE "chunked-parallel"
    ELSE strat

ResolveStrategyStrict(strat, nBatches, limit) ==
    IF strat = "auto"
    THEN IF nBatches < limit THEN "parallel" ELSE "sequential"
    ELSE strat

\* Determine execution strategy.
ResolveStrategy(strat, nBatches, limit) ==
    IF strat = "auto"
    THEN IF nBatches <= limit THEN "parallel" ELSE "sequential"
    ELSE strat

\* Mutant of Dispatch: the parallel case runs executeChunkedParallel with
\* maxConcurrent.
DispatchParallelAsChunked(es, bs, limit) ==
    CASE es = "parallel" -> executeChunkedParallel(bs, 0, <<>>, limit)
      [] es = "sequential" -> executeSequential(bs, 0, <<>>)
      [] OTHER -> executeChunkedParallel(bs, 0, <<>>, limit)

\* Mutant of Dispatch: the sequential case runs executeParallel.
DispatchSequentialAsParallel(es, bs, limit) ==
    CASE es = "parallel" -> executeParallel(bs)
      [] es = "sequential" -> executeParallel(bs)
      [] OTHER -> executeChunkedParallel(bs, 0, <<>>, limit)

\* Execute based on strategy.
Dispatch(es, bs, limit) ==
    CASE es = "parallel" -> executeParallel(bs)
      [] es = "sequential" -> executeSequential(bs, 0, <<>>)
      [] OTHER -> executeChunkedParallel(bs, 0, <<>>, limit)

\* ------------------------------------------------------------- actions
\* Mutant of executeBatchedQuerySmart: the early return for empty arrays is missing.
executeBatchedQuerySmartNoEmptyCheck ==
    /\ pc = "start"
    /\ entry = "smart"
    /\ IF Len(ids) <= batchSize
       THEN /\ DirectCall(ids)
            /\ UNCHANGED <<batches, executionStrategy, items>>
       ELSE LET bs == SplitIntoBatches(ids, batchSize)
                es == ResolveStrategy(strategy, Len(bs), maxConcurrent)
            IN  /\ batches' = bs
                /\ items' = BatchLoopLeaves(items, batchSize, 0)
                /\ executionStrategy' = es
                /\ Dispatch(es, bs, maxConcurrent)
    /\ UNCHANGED <<inputs, outOfOrder, firstRejected>>

\* Mutant of executeBatchedQuerySmart: the single-batch test is ids.length < batchSize.
executeBatchedQuerySmartStrictFastPath ==
    /\ pc = "start"
    /\ entry = "smart"
    /\ IF Len(ids) = 0
       THEN /\ Return(<<>>, <<>>)
            /\ UNCHANGED <<batches, executionStrategy, items>>
       ELSE IF Len(ids) < batchSize
       THEN /\ DirectCall(ids)
            /\ UNCHANGED <<batches, executionStrategy, items>>
       ELSE LET bs == SplitIntoBatches(ids, batchSize)
                es == ResolveStrategy(strategy, Len(bs), maxConcurrent)
            IN  /\ batches' = bs
                /\ items' = BatchLoopLeaves(items, batchSize, 0)
                /\ executionStrategy' = es
                /\ Dispatch(es, bs, maxConcurrent)
    /\ UNCHANGED <<inputs, outOfOrder, firstRejected>>

\* The call executeBatchedQuerySmart(ids, queryFn, options), up to its first
\* await or its return.
executeBatchedQuerySmart ==
    /\ pc = "start"
    /\ entry = "smart"
    /\ IF Len(ids) = 0
       THEN /\ Return(<<>>, <<>>)
            /\ UNCHANGED <<batches, executionStrategy, items>>
       ELSE IF Len(ids) <= batchSize
       THEN /\ DirectCall(ids)
            /\ UNCHANGED <<batches, executionStrategy, items>>
       ELSE IF ~BatchLoopExits(ids, batchSize)
       THEN /\ Diverge
            /\ UNCHANGED <<batches, executionStrategy, items>>
       ELSE LET bs == SplitIntoBatches(ids, batchSize)
                es == ResolveStrategy(strategy, Len(bs), maxConcurrent)
            IN  /\ batches' = bs
                /\ items' = BatchLoopLeaves(items, batchSize, 0)
                /\ executionStrategy' = es
                /\ Dispatch(es, bs, maxConcurrent)
    /\ UNCHANGED <<inputs, outOfOrder, firstRejected>>

\* The call of the chunked-parallel helper on the batches of ids
\* (chunkedParallelExecution of the benchmark; executeChunkedParallel).
chunkedParallelExecution ==
    /\ pc = "start"
    /\ entry = "chunked"
    /\ LET bs == SplitIntoBatches(ids, batchSize)
       IN  /\ batches' = bs
           /\ items' = BatchLoopLeaves(items, batchSize, 0)
           /\ executeChunkedParallel(bs, 0, <<>>, maxConcurrent)
    /\ UNCHANGED <<inputs, executionStrategy, outOfOrder, firstRejected>>

\* The promise returned by `return queryFn(ids)` settled.
ResumeDirect ==
    /\ pc = "direct"
    /\ awaited.state # "pending"
    /\ IF awaited.state = "fulfilled"
       THEN Return(calls[awaited.members[1]].value, results)
       ELSE Throw(awaited.reason)
    /\ UNCHANGED <<inputs, batches, executionStrategy, outOfOrder, firstRejected, items>>

\* executeParallel after its await: return batchResults.flat().
ResumeParallel ==
    /\ pc = "parallel"
    /\ awaited.state # "pending"
    /\ IF awaited.state = "fulfilled"
       THEN Return(Flat(ValuesOf(calls, awaited.members)), results)
       ELSE Throw(awaited.reason)
    /\ UNCHANGED <<inputs, batches, executionStrategy, outOfOrder, firstRejected, items>>

\* Mutant of ResumeSequential: the await of a batch is raced against a
\* timeout, which rejects the call while the invocation is still pending.
ResumeSequentialTimeout ==
    /\ pc = "sequential"
    /\ IF awaited.state = "fulfilled"
       THEN executeSequential(batches, i + 1,
                              results \o calls[awaited.members[1]].value)
       ELSE IF awaited.state = "rejected"
       THEN Throw(awaited.reason)
       ELSE Throw("e1")
    /\ UNCHANGED <<inputs, batches, executionStrategy, outOfOrder, firstRejected, items>>

\* Mutant of ResumeSequential: a rejected batch is skipped and the loop goes on.
ResumeSequentialIgnoreError ==
    /\ pc = "sequential"
    /\ awaited.state # "pending"
    /\ executeSequential(batches, i + 1,
                         results \o calls[awaited.members[1]].value)
    /\ UNCHANGED <<inputs, batches, executionStrategy, outOfOrder, firstRejected, items>>

\* Mutant of ResumeSequential: a rejected batch is passed to queryFn again.
ResumeSequentialRetry ==
    /\ pc = "sequential"
    /\ awaited.state # "pending"
    /\ IF awaited.state = "fulfilled"
       THEN executeSequential(batches, i + 1,
                              results \o calls[awaited.members[1]].value)
       ELSE executeSequential(batches, i, results)
    /\ UNCHANGED <<inputs, batches, executionStrategy, outOfOrder, firstRejected, items>>

\* executeSequential after its await: results.push(...batchResults), next batch.
ResumeSequential ==
    /\ pc = "sequential"
    /\ awaited.state # "pending"
    /\ IF awaited.state = "fulfilled"
       THEN executeSequential(batches, i + 1,
                              results \o calls[awaited.members[1]].value)
       ELSE Throw(awaited.reason)
    /\ UNCHANGED <<inputs, batches, executionStrategy, outOfOrder, firstRejected, items>>

\* Mutant of ResumeChunkedParallel: the loop index advances by one batch, not
\* by maxConcurrent.
ResumeChunkedParallelByOne ==
    /\ pc = "chunked"
    /\ awaited.state # "pending"
    /\ IF awaited.state = "fulfilled"
       THEN executeChunkedParallel(batches, i + 1,
                                   results \o Flat(ValuesOf(calls, awaited.members)),
                                   maxConcurrent)
       ELSE Throw(awaited.reason)
    /\ UNCHANGED <<inputs, batches, executionStrategy, outOfOrder, firstRejected, items>>

\* executeChunkedParallel after its await:
\* results.push(...chunkResults.flat()), i += maxConcurrent.
ResumeChunkedParallel ==
    /\ pc = "chunked"
    /\ awaited.state # "pending"
    /\ IF awaited.state = "fulfilled"
       THEN executeChunkedParallel(batches, i + maxConcurrent,
                                   results \o Flat(ValuesOf(calls, awaited.members)),
                                   maxConcurrent)
       ELSE Throw(awaited.reason)
    /\ UNCHANGED <<inputs, batches, executionStrategy, outOfOrder, firstRejected, items>>

\* Invocation k settles while the invocation of an earlier chunk is pending.
EarlierPending(k) ==
    \E j \in DOMAIN calls :
        calls[j].chunk < calls[k].chunk /\ calls[j].state = "pending"

\* Mutant of QueryResolve: the awaited Promise.all is fulfilled by its first
\* fulfilled member (Promise.any in place of Promise.all).
QueryResolveAny(k, n) ==
    /\ calls[k].state = "pending"
    /\ calls' = [calls EXCEPT ![k].state = "fulfilled",
                              ![k].value = ResultList(calls[k].chunk, n)]
    /\ awaited' =
         IF awaited.state = "pending" /\ k \in Range(awaited.members)
         THEN [awaited EXCEPT !.state = "fulfilled"]
         ELSE awaited
    /\ outOfOrder' = (outOfOrder \/ EarlierPending(k))
    /\ UNCHANGED <<inputs, batches, executionStrategy, i, results, pc, output, error>>
    /\ UNCHANGED <<firstRejected, items>>

\* Mutant of QueryResolve: the fulfilment of a member never reaches the
\* Promise.all it belongs to, which stays pending.
QueryResolveLost(k, n) ==
    /\ calls[k].state = "pending"
    /\ calls' = [calls EXCEPT ![k].state = "fulfilled",
                              ![k].value = ResultList(calls[k].chunk, n)]
    /\ outOfOrder' = (outOfOrder \/ EarlierPending(k))
    /\ UNCHANGED <<inputs, batches, executionStrategy, i, results, pc, output, error>>
    /\ UNCHANGED <<awaited, firstRejected, items>>

\* The promise of invocation k is fulfilled with a result list of n items.  A
\* Promise.all it belongs to is fulfilled once all its members are.
QueryResolve(k, n) ==
    /\ calls[k].state = "pending"
    /\ calls' = [calls EXCEPT ![k].state = "fulfilled",
                              ![k].value = ResultList(calls[k].chunk, n)]
    /\ awaited' =
         IF /\ awaited.state = "pending"
            /\ \A m \in Range(awaited.members) : calls'[m].state = "fulfilled"
         THEN [awaited EXCEPT !.state = "fulfilled"]
         ELSE awaited
    /\ outOfOrder' = (outOfOrder \/ EarlierPending(k))
    /\ UNCHANGED <<inputs, batches, executionStrategy, i, results, pc, output, error>>
    /\ UNCHANGED <<firstRejected, items>>

\* Mutant of QueryReject: every rejection of a member replaces the reason of
\* the awaited promise, so the last rejection before the resumption wins.
QueryRejectLast(k, e) ==
    /\ calls[k].state = "pending"
    /\ calls' = [calls EXCEPT ![k].state = "rejected", ![k].reason = e]
    /\ awaited' =
         IF awaited.state \in {"pending", "rejected"} /\ k \in Range(awaited.members)
         THEN [awaited EXCEPT !.state = "rejected", !.reason = e]
         ELSE awaited
    /\ outOfOrder' = (outOfOrder \/ EarlierPending(k))
    /\ UNCHANGED <<inputs, batches, executionStrategy, i, results, pc, output, error>>
    /\ firstRejected' = (IF firstRejected = 0 THEN k ELSE firstRejected)
    /\ UNCHANGED items

\* The promise of invocation k is rejected with e.  A pending Promise.all it
\* belongs to is rejected with the same reason at once.
QueryReject(k, e) ==
    /\ calls[k].state = "pending"
    /\ calls' = [calls EXCEPT ![k].state = "rejected", ![k].reason = e]
    /\ awaited' =
         IF awaited.state = "pending" /\ k \in Range(awaited.members)
         THEN [awaited EXCEPT !.state = "rejected", !.reason = e]
         ELSE awaited
    /\ outOfOrder' = (outOfOrder \/ EarlierPending(k))
    /\ UNCHANGED <<inputs, batches, executionStrategy, i, results, pc, output, error>>
    /\ firstRejected' = (IF firstRejected = 0 THEN k ELSE firstRejected)
    /\ UNCHANGED items

Settle ==
    \E k \in DOMAIN calls :
        \/ \E n \in 0..MaxResultLen : QueryResolve(k, n)
        \/ \E e \in Errors : QueryReject(k, e)

Next ==
    \/ executeBatchedQuerySmart
    \/ chunkedParallelExecution
    \/ ResumeDirect
    \/ ResumeParallel
    \/ ResumeSequential
    \/ ResumeChunkedParallel
    \/ Settle

Spec == Init /\ [][Next]_vars

\* The steps of the call itself: the synchronous segments of the async functions.
Orchestrator ==
    \/ executeBatchedQuerySmart
    \/ chunkedParallelExecution
    \/ ResumeDirect
    \/ ResumeParallel
    \/ ResumeSequential
    \/ ResumeChunkedParallel

\* The call under fair scheduling.  The event loop runs a function that was
\* called, and the continuation of an await once the awaited promise has
\* settled (WF on Orchestrator); every lookup invocation eventually settles
\* (WF on Settle, enabled as long as an invocation is pending).
SpecLive == Spec /\ WF_vars(Orchestrator) /\ WF_vars(Settle)

\* The calls of executeBatchedQuerySmart with misused options.
NextMisuse ==
    \/ executeBatchedQuerySmart
    \/ ResumeDirect
    \/ ResumeParallel
    \/ ResumeSequential
    \/ Settle

SpecMisuse == InitMisuse /\ [][NextMisuse]_vars

\* executeBatchedQueryParallel of the enhanced module:
\* return executeBatchedQuerySmart(ids, queryFn, { strategy: 'parallel' }).
executeBatchedQueryParallel ==
    /\ strategy = "parallel"
    /\ batchSize = BATCH_SIZE
    /\ maxConcurrent = DEFAULT_MAX_POOL_SIZE
    /\ executeBatchedQuerySmart

\* The calls through the backward-compatible parallel wrapper.
NextCompat ==
    \/ executeBatchedQueryParallel
    \/ ResumeDirect
    \/ ResumeParallel
    \/ Settle

SpecCompat == InitCompat /\ [][NextCompat]_vars

\* ------------------------------------- the code as functions of a run
\* The state of the call as one record: the locals of the running function,
\* the invocations it started, the promise it waits on, and its outcome.
Run ==
    [batches |-> batches, executionStrategy |-> executionStrategy, i |-> i,
     results |-> results, calls |-> calls, awaited |-> awaited, pc |-> pc,
     output |-> output, error |-> error]

\* The run waits on a promise that has settled: its continuation can run.
Resumable(r) ==
    /\ r.pc \notin {"start", "resolved", "rejected", "diverged"}
    /\ r.awaited.state # "pending"

RunSuspend(r, log, members, where, k, res) ==
    [r EXCEPT !.calls = log, !.awaited = PromiseAll(members), !.pc = where,
              !.i = k, !.results = res]

RunReturn(r, v, res) ==
    [r EXCEPT !.pc = "resolved", !.output = v, !.results = res,
              !.awaited = NoPromise]

RunThrow(r, e) ==
    [r EXCEPT !.pc = "rejected", !.error = e, !.awaited = NoPromise]

\* return queryFn(xs).
RunDirectCall(r, xs) ==
    LET log == Append(r.calls, Invocation(xs, 1))
    IN  RunSuspend(r, log, LastStarted(log, 1), "direct", 0, <<>>)

\* executeParallel(batches, queryFn) up to its await.
executeParallelOn(r, bs) ==
    LET log == MapQueryFn(r.calls, bs, 0)
    IN  RunSuspend(r, log, LastStarted(log, Len(bs)), "parallel", 0, <<>>)

\* executeSequential(batches, queryFn) from the iteration of batch k on.
executeSequentialOn(r, bs, k, res) ==
    IF k < Len(bs)
    THEN LET log == Append(r.calls, Invocation(bs[k + 1], k + 1))
         IN  RunSuspend(r, log, LastStarted(log, 1), "sequential", k, res)
    ELSE RunReturn(r, res, res)

\* executeChunkedParallel(batches, queryFn, maxConcurrent) from loop index k on.
executeChunkedParallelOn(r, bs, k, res, limit) ==
    IF k < Len(bs)
    THEN LET chunk == Slice(bs, k, k + limit)
             log == MapQueryFn(r.calls, chunk, k)
         IN  RunSuspend(r, log, LastStarted(log, Len(chunk)), "chunked", k, res)
    ELSE RunReturn(r, res, res)

\* executeBatchedQuerySmart(xs, queryFn, { batchSize: size, maxConcurrent:
\* limit, strategy: strat }) up to its first await or its return, size >= 1.
executeBatchedQuerySmartWith(r, xs, size, limit, strat) ==
    IF Len(xs) = 0 THEN RunReturn(r, <<>>, <<>>)
    ELSE IF Len(xs) <= size THEN RunDirectCall(r, xs)
    ELSE LET bs == SplitIntoBatches(xs, size)
             es == ResolveStrategy(strat, Len(bs), limit)
             s == [r EXCEPT !.batches = bs, !.executionStrategy = es]
         IN  CASE es = "parallel" -> executeParallelOn(s, bs)
               [] es = "sequential" -> executeSequentialOn(s, bs, 0, <<>>)
               [] OTHER -> executeChunkedParallelOn(s, bs, 0, <<>>, limit)

\* The continuation of the await the run is suspended on, in the helpers of
\* the enhanced module, with maxConcurrent = limit.
ResumeWith(r, limit) ==
    IF r.awaited.state = "rejected" THEN RunThrow(r, r.awaited.reason)
    ELSE CASE r.pc = "direct" ->
                RunReturn(r, r.calls[r.awaited.members[1]].value, r.results)
           [] r.pc = "parallel" ->
                RunReturn(r, Flat(ValuesOf(r.calls, r.awaited.members)), r.results)
           [] r.pc = "sequential" ->
                executeSequentialOn(r, r.batches, r.i + 1,
                    r.results \o r.calls[r.awaited.members[1]].value)
           [] r.pc = "chunked" ->
                executeChunkedParallelOn(r, r.batches, r.i + limit,
                    r.results \o Flat(ValuesOf(r.calls, r.awaited.members)), limit)
           [] OTHER -> r

\* The original parallel implementation, up to its await or its return.
originalExecuteBatchedQueryParallel(r, xs) ==
    IF Len(xs) = 0 THEN RunReturn(r, <<>>, <<>>)
    ELSE IF Len(xs) <= ORIGINAL_BATCH_SIZE THEN RunDirectCall(r, xs)
    ELSE LET bs == BatchLoop(xs, ORIGINAL_BATCH_SIZE, 0, <<>>)
             log == MapQueryFn(r.calls, bs, 0)
         IN  RunSuspend([r EXCEPT !.batches = bs], log,
                        LastStarted(log, Len(bs)), "parallel", 0, <<>>)

\* The original parallel implementation after the promise it waits on settled:
\* the promise of queryFn(ids) is adopted, or return batchResults.flat().
originalResume(r) ==
    IF r.awaited.state = "rejected" THEN RunThrow(r, r.awaited.reason)
    ELSE IF r.pc = "direct"
    THEN RunReturn(r, r.calls[r.awaited.members[1]].value, r.results)
    ELSE RunReturn(r, Flat(ValuesOf(r.calls, r.awaited.members)), r.results)

\* withBatches: for (const batch of batches), from batch number k on:
\* await fn(batch), or return results after the last batch.
withBatchesLoop(r, k, res) ==
    IF k < Len(r.batches)
    THEN LET log == Append(r.calls, Invocation(r.batches[k + 1], k + 1))
         IN  RunSuspend(r, log, LastStarted(log, 1), "batch", k, res)
    ELSE RunReturn(r, res, res)

\* withBatches(ins, batchSize, fn) up to its first await or its return.
withBatches(r, ins, size) ==
    withBatchesLoop([r EXCEPT !.batches = BatchLoop(ins, size, 0, <<>>)], 0, <<>>)

\* withBatches after its await: for (const r of batchResults) results.push(r).
withBatchesResume(r) ==
    IF r.awaited.state = "rejected" THEN RunThrow(r, r.awaited.reason)
    ELSE withBatchesLoop(r, r.i + 1,
                         r.results \o r.calls[r.awaited.members[1]].value)

\* ------------------------------------------- a lookup that modifies its batch
\* Invocation k was passed the caller's array itself: return queryFn(ids) on
\* the single-batch path.  Every other invocation is passed an element of
\* `batches`, a new array made by ids.slice.
PassedItself(k) == entry = "smart" /\ batches = <<>>

\* Array.prototype.pop: the array without its last item.
Pop(s) == SubSeq(s, 1, Len(s) - 1)

\* The lookup is opaque and need not be free of side effects: while invocation
\* k runs, it removes the last item of the array it was passed.  That array is
\* the caller's array or an element of `batches`.
LookupModifiesBatch(k) ==
    /\ calls[k].state = "pending"
    /\ calls[k].batch # <<>>
    /\ calls' = [calls EXCEPT ![k].batch = Pop(calls[k].batch)]
    /\ IF PassedItself(k)
       THEN /\ items' = Pop(items)
            /\ UNCHANGED batches
       ELSE /\ batches' = [batches EXCEPT ![calls[k].chunk] = Pop(batches[calls[k].chunk])]
            /\ UNCHANGED items
    /\ UNCHANGED <<inputs, executionStrategy, i, results, awaited, pc, output,
                   error, outOfOrder, firstRejected>>

\* The call with a lookup that may modify the arrays it is passed.
NextFrame ==
    \/ executeBatchedQuerySmart
    \/ chunkedParallelExecution
    \/ ResumeDirect
    \/ ResumeParallel
    \/ ResumeSequential
    \/ ResumeChunkedParallel
    \/ Settle
    \/ \E k \in DOMAIN calls : LookupModifiesBatch(k)

\* The calls checked with such a lookup: those of Init with ids of at most
\* MaxFrameItems items.
InitFrame == Init /\ Len(ids) <= MaxFrameItems

SpecFrame == InitFrame /\ [][NextFrame]_vars

\* ------------------------------------------------------ type invariant
TypeOK ==
    /\ entry \in Entries
    /\ strategy \in Strategies
    /\ pc \in {"start", "direct", "parallel", "sequential", "chunked",
               "resolved", "rejected", "diverged"}
    /\ \A k \in DOMAIN calls :
         /\ calls[k].state \in {"pending", "fulfilled", "rejected"}
         /\ Len(calls[k].value) <= MaxResultLen
    /\ awaited.state \in {"none", "pending", "fulfilled", "rejected"}
    /\ error \in Errors \cup {"none"}

\* -------------------------------------------------------- observations
\* Invocations started and not yet settled.
InFlight == Cardinality({k \in DOMAIN calls : calls[k].state = "pending"})

\* B = ceil(ids.length / batchSize), the number of chunks of the input.
NumChunks == (Len(ids) + batchSize - 1) \div batchSize

CallsOf(c) == {k \in DOMAIN calls : calls[k].chunk = c}
Started(c) == CallsOf(c) # {}
Fulfilled(c) == \E k \in CallsOf(c) : calls[k].state = "fulfilled"
AnyRejected == \E k \in DOMAIN calls : calls[k].state = "rejected"
NoneSettled == \A k \in DOMAIN calls : calls[k].state = "pending"

\* The result list the lookup returned for chunk c.
ChunkResult(c) ==
    IF CallsOf(c) = {} THEN <<>> ELSE calls[CHOOSE k \in CallsOf(c) : TRUE].value

\* The lookup results concatenated in chunk-definition order.
ConcatInChunkOrder == Flat([c \in 1..NumChunks |-> ChunkResult(c)])

\* The group of maxConcurrent consecutive chunks that chunk c belongs to (0-based).
GroupOf(c) == (c - 1) \div maxConcurrent

Suspended == pc \in {"direct", "parallel", "sequential", "chunked"}

\* ---------------------------------------------------------------- claims
\* C1: whenever the call resolves, under any strategy and any settle order of
\* the invocations and any result lengths, its output is the concatenation of
\* the lookup results in chunk-definition order.
C1_OrderPreservation ==
    pc = "resolved" =>
        /\ \A c \in 1..NumChunks : Fulfilled(c)
        /\ output = ConcatInChunkOrder

\* C1 witness: a parallel call of three or more chunks resolved after the
\* invocations settled out of chunk order with result lists of different lengths.
C1_Witness ==
    /\ pc = "resolved"
    /\ entry = "smart"
    /\ executionStrategy = "parallel"
    /\ NumChunks >= 3
    /\ outOfOrder
    /\ \E c, d \in 1..NumChunks : Len(ChunkResult(c)) < Len(ChunkResult(d))
    /\ Len(ChunkResult(1)) # Len(calls[1].batch)

\* C2: under the auto strategy the number of in-flight invocations never
\* exceeds maxConcurrent.
C2_AutoCeiling ==
    (entry = "smart" /\ strategy = "auto") => InFlight <= maxConcurrent

\* C2 witness: auto with more chunks than maxConcurrent >= 2, running on its
\* second chunk.
C2_Witness ==
    /\ entry = "smart"
    /\ strategy = "auto"
    /\ NumChunks > maxConcurrent
    /\ maxConcurrent >= 2
    /\ Len(calls) >= 2
    /\ InFlight >= 1

\* C3 as stated: under every strategy, forced parallel included, the number of
\* in-flight invocations never exceeds maxConcurrent.
C3_HardCeilingEveryStrategy ==
    entry = "smart" => InFlight <= maxConcurrent

\* C3 amended: maxConcurrent bounds the in-flight invocations under auto and
\* sequential; under a forced parallel strategy the bound is the chunk count B.
C3_CeilingExceptForcedParallel ==
    entry = "smart" =>
        IF strategy = "parallel"
        THEN InFlight <= NumChunks
        ELSE InFlight <= maxConcurrent

\* C3 witness: forced parallel with all B > maxConcurrent invocations in flight.
C3_Witness ==
    /\ entry = "smart"
    /\ strategy = "parallel"
    /\ NumChunks > maxConcurrent
    /\ InFlight = NumChunks

\* C4 as stated: under auto with B > maxConcurrent the chunks run in groups of
\* maxConcurrent: a started chunk has its whole group started with it, and
\* every chunk of the earlier groups is resolved.
C4_AutoChunkedParallel ==
    (entry = "smart" /\ strategy = "auto" /\ NumChunks > maxConcurrent) =>
        \A c \in 1..NumChunks : Started(c) =>
            \A d \in 1..NumChunks :
                /\ GroupOf(d) = GroupOf(c) => Started(d)
                /\ GroupOf(d) < GroupOf(c) => Fulfilled(d)

C6_AutoParallel ==
    (entry = "smart" /\ strategy = "auto" /\ 2 <= NumChunks
        /\ NumChunks <= maxConcurrent /\ pc # "start") =>
        /\ executionStrategy = "parallel"
        /\ \A c \in 1..NumChunks : Started(c)
        /\ NoneSettled => InFlight = NumChunks

\* C6 witness: the boundary B = maxConcurrent, all B in flight.
C6_Witness ==
    /\ entry = "smart"
    /\ strategy = "auto"
    /\ NumChunks = maxConcurrent
    /\ NumChunks >= 2
    /\ pc = "parallel"
    /\ InFlight = NumChunks

\* C7: under the sequential strategy with B > 1 each chunk is invoked at most
\* once, chunk c+1 is started only after chunk c resolved, at most one
\* invocation is in flight, and a call that resolved invoked every chunk.
C7_SequentialOneAtATime ==
    (entry = "smart" /\ strategy = "sequential" /\ NumChunks > 1) =>
        /\ InFlight <= 1
        /\ \A c \in 2..NumChunks : Started(c) => Fulfilled(c - 1)
        /\ \A c \in 1..NumChunks : Cardinality(CallsOf(c)) <= 1
        /\ pc = "resolved" => \A c \in 1..NumChunks : Started(c)

\* C7 witness: sequential, three or more chunks, maxConcurrent >= 2, the
\* second chunk alone in flight after the first resolved.
C7_Witness ==
    /\ entry = "smart"
    /\ strategy = "sequential"
    /\ NumChunks >= 3
    /\ maxConcurrent >= 2
    /\ Fulfilled(1)
    /\ Started(2)
    /\ ~Fulfilled(2)
    /\ InFlight = 1

\* C8: under the parallel strategy with B > 1, by the time the call waits every
\* chunk has been invoked (none has settled before all were started), and the
\* call resolves only when all B invocations have resolved.
C8_ParallelAllDispatched ==
    (entry = "smart" /\ strategy = "parallel" /\ NumChunks > 1 /\ pc # "start") =>
        /\ \A c \in 1..NumChunks : Started(c)
        /\ NoneSettled => InFlight = NumChunks
        /\ pc = "resolved" => \A c \in 1..NumChunks : Fulfilled(c)

\* C8 witness: forced parallel, three or more chunks, resolved with every
\* invocation resolved.
C8_Witness ==
    /\ entry = "smart"
    /\ strategy = "parallel"
    /\ NumChunks >= 3
    /\ pc = "resolved"
    /\ \A c \in 1..NumChunks : Fulfilled(c)

\* C9: once a lookup invocation has rejected, the call has rejected or is about
\* to (it is suspended on a rejected promise); a rejected call has no output,
\* whatever results it had collected, and a resolved call saw no rejection.
C9_FailFast ==
    /\ AnyRejected => (pc = "rejected" \/ (Suspended /\ awaited.state = "rejected"))
    /\ pc = "rejected" => (output = <<>> /\ error \in Errors /\ AnyRejected)
    /\ pc = "resolved" => ~AnyRejected

\* C9 witness: a call rejected after it had collected results of completed chunks.
C9_Witness ==
    /\ pc = "rejected"
    /\ results # <<>>
    /\ output = <<>>
    /\ \E c \in 1..NumChunks : Fulfilled(c) /\ ChunkResult(c) # <<>>

\* C10: under sequential execution no chunk after a rejected chunk is ever
\* invoked; under chunked-parallel execution no chunk of a group after the
\* group of a rejected chunk is ever invoked.
C10_NoLaterChunkAfterRejection ==
    \A k, j \in DOMAIN calls :
        calls[k].state = "rejected" =>
            /\ executionStrategy = "sequential" => calls[j].chunk <= calls[k].chunk
            /\ entry = "chunked" => GroupOf(calls[j].chunk) <= GroupOf(calls[k].chunk)

\* C10 witness: sequential, chunk 2 of 4 rejected, the call rejected with
\* chunks 3 and 4 never invoked.
C10_Witness ==
    /\ entry = "smart"
    /\ executionStrategy = "sequential"
    /\ NumChunks = 4
    /\ pc = "rejected"
    /\ \E k \in DOMAIN calls : calls[k].chunk = 2 /\ calls[k].state = "rejected"
    /\ ~Started(3)
    /\ ~Started(4)

\* C11: under parallel execution every chunk has been invoked when a rejection
\* is there to observe; the call may reject while sibling invocations are still
\* in flight; the steps of the orchestrator never touch a started invocation
\* (no cancellation), a sibling in flight can still settle after the call
\* rejected, and the rejected call keeps its error and never gets an output.
C11_InvocationsUntouched ==
    pc' # pc => \A k \in DOMAIN calls : calls'[k] = calls[k]

C11_RejectedForGood ==
    pc = "rejected" => (pc' = "rejected" /\ error' = error /\ output' = <<>>)

C11_ParallelSiblingsNotCancelled ==
    /\ [](/\ (executionStrategy = "parallel" /\ AnyRejected) =>
                \A c \in 1..NumChunks : Started(c)
          /\ (pc = "rejected" /\ InFlight >= 1) => ENABLED Settle)
    /\ [][C11_InvocationsUntouched /\ C11_RejectedForGood]_vars

\* C11 witness: a parallel call has rejected while a sibling invocation is
\* still in flight and another has completed.
C11_Witness ==
    /\ entry = "smart"
    /\ executionStrategy = "parallel"
    /\ pc = "rejected"
    /\ InFlight >= 1
    /\ \E c \in 1..NumChunks : Fulfilled(c)

\* C12: for an empty ids array the call resolves to the empty array and the
\* lookup is never invoked, whatever the strategy, batchSize and maxConcurrent.
C12_EmptyInput ==
    (entry = "smart" /\ ids = <<>>) =>
        /\ calls = <<>>
        /\ pc \in {"start", "resolved"}
        /\ pc = "resolved" => output = <<>>

\* C12 witness: a call with empty ids and a forced strategy has resolved.
C12_Witness ==
    /\ entry = "smart"
    /\ ids = <<>>
    /\ strategy = "sequential"
    /\ pc = "resolved"
    /\ output = <<>>
    /\ calls = <<>>

\* C13 as stated: for every ids with ids.length <= batchSize the lookup is
\* invoked exactly once, with the whole ids array.
C13_FastPathEveryLength ==
    (entry = "smart" /\ Len(ids) <= batchSize /\ pc # "start") =>
        (Len(calls) = 1 /\ calls[1].batch = ids)

\* C13 amended: for every non-empty ids with ids.length <= batchSize and every
\* strategy, the lookup is invoked exactly once with the whole ids array, no
\* batches are built and no strategy is selected, and the call settles as
\* that one invocation does.
C13_FastPath ==
    (entry = "smart" /\ 1 <= Len(ids) /\ Len(ids) <= batchSize /\ pc # "start") =>
        /\ Len(calls) = 1
        /\ calls[1].batch = ids
        /\ batches = <<>>
        /\ executionStrategy = "none"
        /\ calls[1].state = "pending" => pc = "direct"
        /\ pc = "resolved" =>
              (calls[1].state = "fulfilled" /\ output = calls[1].value)
        /\ pc = "rejected" =>
              (calls[1].state = "rejected" /\ error = calls[1].reason)

\* C13 witness: ids as long as batchSize (2 items) under a forced strategy,
\* resolved with the result of the single invocation.
C13_Witness ==
    /\ entry = "smart"
    /\ Len(ids) = 2
    /\ batchSize = 2
    /\ strategy = "parallel"
    /\ pc = "resolved"
    /\ Len(calls) = 1
    /\ calls[1].batch = ids
    /\ output = calls[1].value
    /\ output # <<>>

\* C14: for ids longer than batchSize the batching step yields ceil(N / S)
\* batches, every batch but the last of exactly S items, the last of 1..S
\* items, and the batches concatenated in order are ids.
C14_PartitionCorrect ==
    (Len(ids) > batchSize /\ pc # "start") =>
        /\ Len(batches) = NumChunks
        /\ \A c \in 1..(Len(batches) - 1) : Len(batches[c]) = batchSize
        /\ 1 <= Len(batches[Len(batches)])
        /\ Len(batches[Len(batches)]) <= batchSize
        /\ Flat(batches) = ids

\* C14 witness: three ids in batches of two: a full batch and a shorter last one.
C14_Witness ==
    /\ entry = "smart"
    /\ Len(ids) = 3
    /\ batchSize = 2
    /\ pc # "start"
    /\ batches = << <<1, 2>>, <<3>> >>

\* C15 as stated: a call with batchSize <= 0 or maxConcurrent <= 0 rejects at
\* once, without invoking the lookup and without batching.
C15_MisuseRejected ==
    ((batchSize <= 0 \/ maxConcurrent <= 0) /\ pc # "start") =>
        (pc = "rejected" /\ calls = <<>> /\ batches = <<>>)

\* C16: a rejected call carries one error, the reason of the lookup rejection
\* that came first in time, also when several invocations reject; under
\* sequential execution that is the failing chunk of lowest index.
C16_FirstRejectionSurfaces ==
    pc = "rejected" =>
        /\ error \in Errors
        /\ firstRejected \in DOMAIN calls
        /\ calls[firstRejected].state = "rejected"
        /\ error = calls[firstRejected].reason
        /\ executionStrategy = "sequential" =>
              \A k \in DOMAIN calls :
                  calls[k].state = "rejected" =>
                      calls[firstRejected].chunk <= calls[k].chunk

\* C16 witness: a parallel call rejected with the reason of the first
\* rejection in time, while an earlier chunk rejected later with another reason.
C16_Witness ==
    /\ entry = "smart"
    /\ executionStrategy = "parallel"
    /\ pc = "rejected"
    /\ firstRejected \in DOMAIN calls
    /\ error = calls[firstRejected].reason
    /\ \E k \in DOMAIN calls :
          /\ calls[k].state = "rejected"
          /\ calls[k].chunk < calls[firstRejected].chunk
          /\ calls[k].reason # error

\* C17: no chunk is ever passed to the lookup twice, also after a rejection;
\* a call of B > 1 chunks that resolved invoked the lookup exactly B times,
\* once per chunk.
C17_NoRetryNoDuplicate ==
    /\ \A k, j \in DOMAIN calls :
          k # j => (calls[k].chunk # calls[j].chunk /\ calls[k].batch # calls[j].batch)
    /\ (pc = "resolved" /\ NumChunks > 1) =>
          /\ Len(calls) = NumChunks
          /\ \A c \in 1..NumChunks : Cardinality(CallsOf(c)) = 1

\* C17 witness: a parallel call of three or more chunks rejected, every sibling
\* has settled, and each chunk was invoked once.
C17_Witness ==
    /\ entry = "smart"
    /\ executionStrategy = "parallel"
    /\ NumChunks >= 3
    /\ pc = "rejected"
    /\ InFlight = 0
    /\ Len(calls) = NumChunks

\* C18 as stated: with strategy left at auto and a custom maxConcurrent smaller
\* than the batch count, the call runs chunked-parallel: the batches are
\* started maxConcurrent at a time, the first maxConcurrent in flight together.
C18_CustomMaxConcurrentChunked ==
    (entry = "smart" /\ strategy = "auto" /\ NumChunks > maxConcurrent
        /\ pc # "start") =>
        /\ NoneSettled => InFlight = maxConcurrent
        /\ (Len(calls) % maxConcurrent = 0 \/ Len(calls) = NumChunks)

\* The chunk number c of the input, from ids and batchSize alone.
ChunkOf(c) == SubSeq(ids, (c - 1) * batchSize + 1, Min(c * batchSize, Len(ids)))

\* C19: every batch passed to the lookup is the chunk that ids and batchSize
\* alone define for its chunk index, whatever the strategy and maxConcurrent,
\* and a call that resolved passed exactly the chunks 1..B.
C19_ChunksFromInputAlone ==
    /\ \A k \in DOMAIN calls :
          /\ calls[k].chunk \in 1..NumChunks
          /\ calls[k].batch = ChunkOf(calls[k].chunk)
    /\ pc = "resolved" => {calls[k].chunk : k \in DOMAIN calls} = 1..NumChunks

\* C19 witness: three ids in batches of two under the sequential strategy,
\* resolved after passing the chunks <<1, 2>> and <<3>>.
C19_Witness ==
    /\ entry = "smart"
    /\ strategy = "sequential"
    /\ Len(ids) = 3
    /\ batchSize = 2
    /\ pc = "resolved"
    /\ Len(calls) = 2
    /\ calls[1].batch = <<1, 2>>
    /\ calls[2].batch = <<3>>

\* The invocation of chunk c is started and has not settled.
Pending(c) == \E k \in CallsOf(c) : calls[k].state = "pending"

\* C23: the orchestrator has no timeout and no cancellation.  Under sequential
\* execution, as long as the invocation of a chunk has not settled the call has
\* not settled and no later chunk is invoked; under parallel execution, as long
\* as an invocation has not settled and none has rejected the call has not
\* settled; and no step of the orchestrator is possible while it waits.
C23_NoTimeout ==
    /\ \A c \in 1..NumChunks :
          (executionStrategy = "sequential" /\ Pending(c)) =>
              /\ pc = "sequential"
              /\ \A d \in 1..NumChunks : d > c => ~Started(d)
    /\ (executionStrategy = "parallel" /\ InFlight >= 1 /\ ~AnyRejected) =>
          pc = "parallel"
    /\ (Suspended /\ awaited.state = "pending") =>
          ~ENABLED (ResumeDirect \/ ResumeParallel \/ ResumeSequential
                      \/ ResumeChunkedParallel)

\* C23 witness: forced sequential, the invocation of chunk 2 of three or more
\* has not settled: the call waits and chunk 3 has not been invoked.
C23_Witness ==
    /\ entry = "smart"
    /\ strategy = "sequential"
    /\ NumChunks >= 3
    /\ Pending(2)
    /\ pc = "sequential"
    /\ ~Started(3)

\* C24: the chunked-parallel helper, for any batches and maxConcurrent >= 1,
\* dispatches the batches in consecutive groups of at most maxConcurrent (a
\* started batch has its whole group started with it), starts a group only
\* after every invocation of the groups before it resolved, never has more
\* than maxConcurrent invocations in flight, and returns the results
\* concatenated in batch order.
C24_ChunkedGroups ==
    entry = "chunked" =>
        /\ \A c \in 1..NumChunks : Started(c) =>
              \A d \in 1..NumChunks :
                  /\ GroupOf(d) = GroupOf(c) => Started(d)
                  /\ GroupOf(d) < GroupOf(c) => Fulfilled(d)
        /\ \A g \in 0..NumChunks :
              Cardinality({c \in 1..NumChunks : GroupOf(c) = g}) <= maxConcurrent
        /\ InFlight <= maxConcurrent
        /\ \A c \in 1..NumChunks : Cardinality(CallsOf(c)) <= 1
        /\ pc = "resolved" =>
              /\ \A c \in 1..NumChunks : Fulfilled(c)
              /\ output = ConcatInChunkOrder

\* C24 witness: the helper with maxConcurrent = 2 and four batches resolved
\* after its second group ran, the groups having settled out of batch order.
C24_Witness ==
    /\ entry = "chunked"
    /\ maxConcurrent = 2
    /\ NumChunks = 4
    /\ pc = "resolved"
    /\ outOfOrder
    /\ output = ConcatInChunkOrder
    /\ output # <<>>

C28_StartedInChunkOrder ==
    \A k, j \in DOMAIN calls : k < j => calls[k].chunk < calls[j].chunk

\* C28 witness: three or more chunks started by one batches.map(queryFn) of a
\* parallel call.
C28_Witness ==
    /\ entry = "smart"
    /\ executionStrategy = "parallel"
    /\ Len(calls) >= 3
    /\ NoneSettled
    /\ calls[1].chunk = 1
    /\ calls[3].chunk = 3

\* C29: when the call has resolved no invocation it started is in flight,
\* under every strategy; when it has rejected under sequential execution no
\* invocation is in flight either.
C29_NothingInFlightAtSettle ==
    /\ pc = "resolved" => InFlight = 0
    /\ (pc = "rejected" /\ executionStrategy = "sequential") => InFlight = 0
    /\ (pc = "rejected" /\ entry = "smart" /\ strategy = "sequential") => InFlight = 0

\* C29 witness: a sequential call rejected on its second chunk or later, with
\* every invocation it started settled.
C29_Witness ==
    /\ entry = "smart"
    /\ executionStrategy = "sequential"
    /\ pc = "rejected"
    /\ Len(calls) >= 2
    /\ InFlight = 0
    /\ Fulfilled(1)

\* C27: for every finite ids and batchSize >= 1 the batching loop exits (the
\* call never hangs in it), and if every lookup invocation eventually settles
\* the promise returned by the call eventually settles, under every strategy.
C27_Termination ==
    /\ [](pc # "diverged")
    /\ <>(pc \in {"resolved", "rejected"})

\* C27 witness: a sequential call of four chunks has resolved after awaiting
\* each of its invocations.
C27_Witness ==
    /\ entry = "smart"
    /\ executionStrategy = "sequential"
    /\ NumChunks = 4
    /\ Len(batches) = 4
    /\ Len(calls) = 4
    /\ pc = "resolved"

\* The run as the original parallel implementation holds it: the same locals
\* and promises, without the local executionStrategy.
OriginalRun == [Run EXCEPT !.executionStrategy = "none"]

\* C21: for every input, each segment the wrapper executeBatchedQueryParallel
\* of the enhanced module runs is the segment the original parallel
\* implementation runs from the same state: it starts the same invocations in
\* the same order, waits on the same promises and settles with the same
\* output or rejection; and one can go on exactly when the other can.
C21_WrapperStep ==
    (executeBatchedQueryParallel \/ ResumeDirect \/ ResumeParallel) =>
        OriginalRun' = IF pc = "start"
                       THEN originalExecuteBatchedQueryParallel(OriginalRun, ids)
                       ELSE originalResume(OriginalRun)

C21_ParallelWrapperCompatible ==
    /\ []((pc = "start" \/ Resumable(OriginalRun)) <=>
             ENABLED (executeBatchedQueryParallel \/ ResumeDirect \/ ResumeParallel))
    /\ [][C21_WrapperStep]_vars

\* C21 witness: a call through the wrapper with 2 * 2000 + 1 ids resolved after
\* its three invocations settled out of order: two full batches and a last
\* batch of one id.
C21_Witness ==
    /\ strategy = "parallel"
    /\ batchSize = BATCH_SIZE
    /\ Len(ids) = 2 * BATCH_SIZE + 1
    /\ Len(calls) = 3
    /\ Len(calls[2].batch) = ORIGINAL_BATCH_SIZE
    /\ Len(calls[3].batch) = 1
    /\ outOfOrder
    /\ pc = "resolved"
    /\ output # <<>>

\* The run as withBatches holds it.  withBatches has no fast path: where
\* executeBatchedQuerySmart passes ids itself to the lookup, withBatches has
\* built the one batch ids.slice(0, batchSize) and collects its result in
\* `results` before it returns.
LegacyRun ==
    [Run EXCEPT
        !.executionStrategy = "none",
        !.batches = IF pc = "start" \/ ids = <<>> THEN <<>>
                    ELSE IF executionStrategy = "none" THEN <<ids>>
                    ELSE batches,
        !.results = IF executionStrategy = "none" /\ pc = "resolved"
                    THEN output ELSE results,
        !.pc = IF pc \in {"direct", "sequential"} THEN "batch" ELSE pc]

\* C22: for every input and batch size, each segment executeBatchedQuerySmart
\* runs under the strategy 'sequential' is the segment withBatches(ids,
\* batchSize, fn) runs from the same state: the same batch is passed to the
\* lookup, one at a time, and the call settles with the same output or
\* rejection, for empty and single-batch inputs too.
C22_SequentialStep ==
    (entry = "smart" /\ strategy = "sequential" /\ Orchestrator) =>
        LegacyRun' = IF pc = "start"
                     THEN withBatches(LegacyRun, ids, batchSize)
                     ELSE withBatchesResume(LegacyRun)

C22_SequentialIsWithBatches ==
    /\ []((entry = "smart" /\ strategy = "sequential") =>
             /\ InFlight <= 1
             /\ (pc = "start" \/ Resumable(LegacyRun)) <=> ENABLED Orchestrator)
    /\ [][C22_SequentialStep]_vars

\* C22 witness: a sequential call of three or more batches resolved with a
\* non-empty output.
C22_Witness ==
    /\ entry = "smart"
    /\ strategy = "sequential"
    /\ NumChunks >= 3
    /\ Len(calls) = NumChunks
    /\ pc = "resolved"
    /\ output # <<>>
    /\ output = LegacyRun.results

\* The run of the chunked-parallel helper as executeParallel holds it (no
\* local `results`, no loop index), and as executeSequential holds it.
AsParallelRun ==
    [Run EXCEPT !.pc = IF pc = "chunked" THEN "parallel" ELSE pc,
                !.results = <<>>, !.i = 0]

AsSequentialRun ==
    [Run EXCEPT !.pc = IF pc = "chunked" THEN "sequential" ELSE pc]

\* The segment executeParallel runs from the run r: the call on the batches of
\* ids, or the continuation of its await.  Promise.all of no batch is
\* fulfilled at once, and the continuation follows without any lookup.
ParallelStep(r) ==
    LET s == IF r.pc = "start"
             THEN executeParallelOn([r EXCEPT !.batches = SplitIntoBatches(ids, batchSize)],
                                    SplitIntoBatches(ids, batchSize))
             ELSE ResumeWith(r, maxConcurrent)
    IN  IF r.pc = "start" /\ Resumable(s) THEN ResumeWith(s, maxConcurrent) ELSE s

\* The segment executeSequential runs from the run r.
SequentialStep(r) ==
    IF r.pc = "start"
    THEN executeSequentialOn([r EXCEPT !.batches = SplitIntoBatches(ids, batchSize)],
                             SplitIntoBatches(ids, batchSize), 0, <<>>)
    ELSE ResumeWith(r, maxConcurrent)

\* C25: when the batches are at most maxConcurrent, chunked-parallel execution
\* forms a single group and each of its segments is the segment of parallel
\* execution: the same invocations are started together and the same output
\* is produced; when maxConcurrent = 1 each of its segments is the segment of
\* sequential execution.
C25_ChunkedStep ==
    (chunkedParallelExecution \/ ResumeChunkedParallel) =>
        /\ NumChunks <= maxConcurrent => AsParallelRun' = ParallelStep(AsParallelRun)
        /\ maxConcurrent = 1 => AsSequentialRun' = SequentialStep(AsSequentialRun)

C25_ChunkedDegenerates ==
    /\ []((entry = "chunked" /\ NumChunks <= maxConcurrent) =>
             \A c, d \in 1..NumChunks : Started(c) => Started(d))
    /\ [][C25_ChunkedStep]_vars

\* C25 witness: the helper with three batches and maxConcurrent = 3 resolved,
\* all three invocations having been in one group.
C25_Witness ==
    /\ entry = "chunked"
    /\ NumChunks = 3
    /\ maxConcurrent = 3
    /\ Len(calls) = 3
    /\ outOfOrder
    /\ pc = "resolved"
    /\ output = Flat(ValuesOf(calls, <<1, 2, 3>>))
    /\ output # <<>>

\* C30: under a forced parallel or sequential strategy maxConcurrent has no
\* effect: each segment of the call is the segment the code runs from the
\* same state with any other maxConcurrent; it starts the same invocations in
\* the same order, waits on the same promises and settles with the same
\* output or error.
C30_SegmentWithAnyLimit ==
    (entry = "smart" /\ strategy \in {"parallel", "sequential"} /\ Orchestrator) =>
        \A limit \in 1..MaxConcurrentOpt :
            Run' = IF pc = "start"
                   THEN executeBatchedQuerySmartWith(Run, ids, batchSize, limit, strategy)
                   ELSE ResumeWith(Run, limit)

C30_MaxConcurrentIgnored == [][C30_SegmentWithAnyLimit]_vars

\* C30 witness: a forced parallel call with three or more batches and
\* maxConcurrent = 1 has all its invocations in flight.
C30_Witness ==
    /\ entry = "smart"
    /\ strategy = "parallel"
    /\ maxConcurrent = 1
    /\ NumChunks >= 3
    /\ pc = "parallel"
    /\ InFlight = NumChunks

\* The call took the single-batch path: it passed ids itself to the lookup.
FastPath == entry = "smart" /\ 1 <= Len(ids) /\ Len(ids) <= batchSize

\* C31 as stated: after any run, under every strategy and every outcome, the
\* caller's items have the contents and the order they had before the call.
C31_ItemsNeverModified == items = ids

\* C31 amended: no segment of the orchestrator modifies the caller's items;
\* off the single-batch path the lookup is passed copies only, and items keep
\* their contents and order whatever the lookup does to its batches; on the
\* single-batch path the lookup is passed items itself, and items are as the
\* lookup left the array it was passed.
C31_OrchestratorLeavesItems == Orchestrator => items' = items

C31_ItemsFrame ==
    /\ [](/\ ~FastPath => items = ids
          /\ (FastPath /\ calls # <<>>) => items = calls[1].batch)
    /\ [][C31_OrchestratorLeavesItems]_vars

\* C31 witness: a call of three or more batches resolved with items intact,
\* after the lookup had removed items from the batches it was passed.
C31_Witness ==
    /\ entry = "smart"
    /\ NumChunks >= 3
    /\ pc = "resolved"
    /\ \E k \in DOMAIN calls : calls[k].batch # ChunkOf(calls[k].chunk)
    /\ batches # SplitIntoBatches(ids, batchSize)
    /\ items = ids

====
